---- MODULE Spec2Model ----
(***************************************************************************)
(* Model of the URL shortener service (server/src/index.ts):                *)
(*   - the in-memory redirect cache (a JavaScript Map used as LRU + TTL),   *)
(*   - the GET /r/:id handler (cache first, then the store),                *)
(*   - the POST /shorten handler (collection, resolution and rewrite pass   *)
(*     over the parsed document) and the allocator                          *)
(*     createUrlWithUniqueShortId,                                          *)
(*   - the Url table of the store with its two unique columns.              *)
(*                                                                          *)
(* Node runs each handler on one thread: the code between two awaits is     *)
(* one atomic step.  A store call is three steps: the handler issues it,    *)
(* the store executes it, the handler resumes with the result.              *)
(*                                                                          *)
(* Short ids and addresses are small integers; null is NULL and undefined   *)
(* is UNDEFINED.  The TTLs are the program's defaults scaled down to clock  *)
(* ticks (300000 ms -> 3 ticks, 30000 ms -> 2 ticks).                       *)
(*                                                                          *)
(* Time.  The program reads the clock only to compute Date.now() + ttl and  *)
(* to test expiresAt <= Date.now(), so only the distance of a timestamp to  *)
(* the current instant matters.  The model measures time from the current   *)
(* instant: now is the origin, and a tick of the clock moves every stored   *)
(* timestamp one tick into the past.  An expiresAt that is reached stays at *)
(* now (expired once, expired for ever); a createdAt, which the program     *)
(* never reads, stops ageing CACHE_404_TTL_MS ticks in the past.  The clock *)
(* itself is unbounded.                                                     *)
(***************************************************************************)
EXTENDS Integers, Sequences, FiniteSets, TLC

\* ------------------------------------------------------------- bounds
NumIds == 2
NumUrls == 2
NumKeys == 3
MaxCap == 2
NumReqs == 2
NumOps == 2
MaxDocUrls == 2
SoloDocUrls == 1
MaxElems == 3

\* ---------------------------------------------------------- constants
CACHE_TTL_MS == 3
CACHE_404_TTL_MS == 2
MAX_ATTEMPTS == 6
DEFAULT_MAX_ATTEMPTS == 5
NULL == 0
UNDEFINED == -1

ShortIds == 1..NumIds
Urls == 1..NumUrls
\* keys the cache is asked about: every short id, and ids no mapping has
CacheKeys == 1..NumKeys
CacheValues == Urls \cup {NULL}
Reqs == 1..NumReqs
Ops == 1..NumOps

\* Date.now(): the current instant, the origin of the time axis
now == 0

VARIABLES
    CACHE_MAX_ENTRIES,  \* the configured capacity (REDIRECT_CACHE_MAX)
    redirectCache,      \* the Map, as the sequence of its entries in insertion order
    lastCall,           \* the cache call made by the last step (none: no call)
    touched,            \* the cached keys, least recently inserted-or-read first
    store,              \* the rows of the Url table
    req,                \* the GET /r/:id requests in flight
    op,                 \* the POST /shorten requests in flight
    sent                \* the response sent by the last step (none: no response)

vars == <<CACHE_MAX_ENTRIES, redirectCache, lastCall, touched,
          store, req, op, sent>>

\* ------------------------------------------------- the JavaScript Map
MapKeys(m) == {m[i].key : i \in 1..Len(m)}
MapHas(m, k) == k \in MapKeys(m)
MapIndex(m, k) == CHOOSE i \in 1..Len(m) : m[i].key = k
MapGet(m, k) == m[MapIndex(m, k)]
MapDelete(m, k) == SelectSeq(m, LAMBDA e : e.key # k)
\* Map.prototype.set: a key already present keeps its place in the order
MapSet(m, k, e) ==
    IF MapHas(m, k) THEN [m EXCEPT ![MapIndex(m, k)] = e] ELSE Append(m, e)

Entry(k, v, exp) == [key |-> k, value |-> v, expiresAt |-> exp]

\* ------------------------------------------------------------ cacheGet
ttlOf(value) == IF value = NULL THEN CACHE_404_TTL_MS ELSE CACHE_TTL_MS

cacheGetLive(cache, key, t) ==
    MapHas(cache, key) /\ ~(MapGet(cache, key).expiresAt <= t)

\* variant: no expiry test, an expired entry is still returned
cacheGetReturn_IgnoreExpiry(cache, key, t) ==
    IF ~MapHas(cache, key) THEN UNDEFINED
    ELSE MapGet(cache, key).value

\* variant: the expiry test inverted
cacheGetReturn_InvertedExpiry(cache, key, t) ==
    IF ~MapHas(cache, key) THEN UNDEFINED
    ELSE IF MapGet(cache, key).expiresAt >= t THEN UNDEFINED
    ELSE MapGet(cache, key).value

cacheGetReturn(cache, key, t) ==
    IF ~MapHas(cache, key) THEN UNDEFINED
    ELSE IF MapGet(cache, key).expiresAt <= t THEN UNDEFINED
    ELSE MapGet(cache, key).value

\* variant: the entry is refreshed where it stands (no delete before set)
cacheGetCache_InPlace(cache, key, t) ==
    IF ~MapHas(cache, key) THEN cache
    ELSE IF MapGet(cache, key).expiresAt <= t THEN MapDelete(cache, key)
    ELSE LET entry == MapGet(cache, key)
         IN  MapSet(cache, key,
                    Entry(key, entry.value, t + ttlOf(entry.value)))

\* variant: an expired entry is reported as a miss and left in the Map
cacheGetCache_KeepExpired(cache, key, t) ==
    IF ~MapHas(cache, key) THEN cache
    ELSE IF MapGet(cache, key).expiresAt <= t THEN cache
    ELSE LET entry == MapGet(cache, key)
         IN  MapSet(MapDelete(cache, key), key,
                    Entry(key, entry.value, t + ttlOf(entry.value)))

cacheGetCache(cache, key, t) ==
    IF ~MapHas(cache, key) THEN cache
    ELSE IF MapGet(cache, key).expiresAt <= t THEN MapDelete(cache, key)
    ELSE LET entry == MapGet(cache, key)
         IN  MapSet(MapDelete(cache, key), key,
                    Entry(key, entry.value, t + ttlOf(entry.value)))

\* ------------------------------------------------------------ cacheSet
\* variant: the capacity test off by one
cacheSetCache_OffByOne(cache, key, value, t, cap) ==
    LET m == MapSet(cache, key, Entry(key, value, t + ttlOf(value)))
    IN  IF Len(m) > cap + 1
        THEN IF Len(m) > 0 THEN MapDelete(m, m[1].key) ELSE m
        ELSE m

\* variant: the newest key is evicted instead of the oldest
cacheSetCache_EvictNewest(cache, key, value, t, cap) ==
    LET m == MapSet(cache, key, Entry(key, value, t + ttlOf(value)))
    IN  IF Len(m) > cap
        THEN IF Len(m) > 0 THEN MapDelete(m, m[Len(m)].key) ELSE m
        ELSE m

\* variant: a key that is present keeps the entry it has
cacheSetCache_KeepExisting(cache, key, value, t, cap) ==
    IF MapHas(cache, key) THEN cache
    ELSE LET m == MapSet(cache, key, Entry(key, value, t + ttlOf(value)))
         IN  IF Len(m) > cap
             THEN IF Len(m) > 0 THEN MapDelete(m, m[1].key) ELSE m
             ELSE m

\* variant: cacheSet sweeps the expired entries out before it inserts
cacheSetCache_PurgeExpired(cache, key, value, t, cap) ==
    LET swept == SelectSeq(cache, LAMBDA e : e.expiresAt > t \/ e.key = key)
        m == MapSet(swept, key, Entry(key, value, t + ttlOf(value)))
    IN  IF Len(m) > cap
        THEN IF Len(m) > 0 THEN MapDelete(m, m[1].key) ELSE m
        ELSE m

\* variant: room is made before the insertion, whether or not the key is
\* already cached
cacheSetCache_EvictBeforeInsert(cache, key, value, t, cap) ==
    LET room == IF Len(cache) >= cap /\ Len(cache) > 0
                THEN MapDelete(cache, cache[1].key) ELSE cache
    IN  MapSet(room, key, Entry(key, value, t + ttlOf(value)))

cacheSetCache(cache, key, value, t, cap) ==
    LET m == MapSet(cache, key, Entry(key, value, t + ttlOf(value)))
    IN  IF Len(m) > cap
        THEN IF Len(m) > 0 THEN MapDelete(m, m[1].key) ELSE m
        ELSE m

\* --------------------------------------------- recency bookkeeping
\* touched: a key moves to the end when it is inserted (it was not in the
\* cache) or read by a hit; keys that left the cache are dropped.
Touch(order, k) == Append(SelectSeq(order, LAMBDA x : x # k), k)
Present(order, cache) == SelectSeq(order, LAMBDA x : MapHas(cache, x))

\* lastCall: the call, what it returned, the keys it removed from the cache,
\* and prev: the key the call before it read by a hit (0: none; recorded
\* where the cache is called directly)
NoCall == [op |-> "none", key |-> 0, value |-> NULL, ret |-> UNDEFINED,
           evicted |-> {}, prev |-> 0]
HitKey(call) ==
    IF call.op = "get" /\ call.ret # UNDEFINED THEN call.key ELSE 0

\* the state after cacheGet(key) was called
DoCacheGet(key, prev) ==
    /\ redirectCache' = cacheGetCache(redirectCache, key, now)
    /\ lastCall' = [op |-> "get", key |-> key, value |-> NULL,
                    ret |-> cacheGetReturn(redirectCache, key, now),
                    evicted |-> MapKeys(redirectCache) \ MapKeys(redirectCache'),
                    prev |-> prev]
    /\ touched' = Present(IF cacheGetLive(redirectCache, key, now)
                          THEN Touch(touched, key) ELSE touched,
                          redirectCache')

\* the state after cacheSet(key, value) was called
DoCacheSet(key, value, prev) ==
    /\ redirectCache' = cacheSetCache(redirectCache, key, value, now,
                                      CACHE_MAX_ENTRIES)
    /\ lastCall' = [op |-> "set", key |-> key, value |-> value,
                    ret |-> UNDEFINED,
                    evicted |-> MapKeys(redirectCache) \ MapKeys(redirectCache'),
                    prev |-> prev]
    /\ touched' = Present(IF MapHas(redirectCache, key)
                          THEN touched ELSE Touch(touched, key),
                          redirectCache')

\* the response sent by the last step
NoSent == [kind |-> "none"]

\* ----------------------------------------------------------- the clock
Max(a, b) == IF a >= b THEN a ELSE b

Tick ==
    /\ redirectCache' =
         [i \in 1..Len(redirectCache) |->
            [redirectCache[i] EXCEPT !.expiresAt = Max(@ - 1, now)]]
    /\ store' = {[row EXCEPT !.createdAt = Max(@ - 1, now - CACHE_404_TTL_MS)] :
                    row \in store}
    /\ lastCall' = NoCall
    /\ sent' = NoSent
    /\ UNCHANGED <<CACHE_MAX_ENTRIES, touched, req, op>>

\* ------------------------------------------------------------ the store
\* model Url { shortId @unique, originalUrl @unique, createdAt }.
\* tombAtCreate records whether the cache held a live tombstone for the
\* row's shortId when the row was created.
Row(id, url, t, tomb) ==
    [shortId |-> id, originalUrl |-> url, createdAt |-> t, tombAtCreate |-> tomb]

HasShortId(st, id) == \E row \in st : row.shortId = id
HasOriginalUrl(st, url) == \E row \in st : row.originalUrl = url

\* variant: the where clause is ignored, any row is returned
findUnique_AnyRow(st, id) ==
    IF st # {} THEN (CHOOSE row \in st : TRUE).originalUrl ELSE NULL

\* prisma.url.findUnique({ where: { shortId } }): the row's address, or null
findUnique(st, id) ==
    IF HasShortId(st, id)
    THEN (CHOOSE row \in st : row.shortId = id).originalUrl
    ELSE NULL

\* variant: the where clause is ignored, any row is returned
findFirst_AnyRow(st, url) ==
    IF st # {} THEN (CHOOSE row \in st : TRUE).shortId ELSE NULL

\* prisma.url.findFirst({ where: { originalUrl } }): the row's shortId, or null
findFirst(st, url) ==
    IF HasOriginalUrl(st, url)
    THEN (CHOOSE row \in st : row.originalUrl = url).shortId
    ELSE NULL

\* variant: a table without unique constraints
createOutcomes_NoConstraint(st, id, url) == {"ok", "error"}

\* prisma.url.create: the outcomes the store can give.  A unique violation
\* is P2002; its meta.target names the violated column, either one when
\* both are violated, and may be missing.
createOutcomes(st, id, url) ==
    (IF ~HasShortId(st, id) /\ ~HasOriginalUrl(st, url) THEN {"ok"} ELSE {})
    \cup (IF HasShortId(st, id) THEN {"P2002_shortId"} ELSE {})
    \cup (IF HasOriginalUrl(st, url) THEN {"P2002_originalUrl"} ELSE {})
    \cup (IF HasShortId(st, id) \/ HasOriginalUrl(st, url)
          THEN {"P2002_noTarget"} ELSE {})
    \cup {"error"}

LiveTombstone(cache, id, t) ==
    MapHas(cache, id) /\ MapGet(cache, id).value = NULL
                      /\ MapGet(cache, id).expiresAt > t

\* -------------------------------------------------- GET /r/:id handler
\* A request in flight.  mapped and late record whether the store held a
\* row for id when the request started, and whether it held one created
\* under a tombstone CACHE_404_TTL_MS or more before.
IdleReq ==
    [pc |-> "idle", id |-> 0, record |-> NULL, threw |-> FALSE,
     mapped |-> FALSE, late |-> FALSE]

\* The response of a redirect request: status 302 with the location, 404 or
\* 500; hit: the cache answered; age: how long before the entry that
\* answered had been written or refreshed; calls: the store calls made.
RedirectSent(q, status, location, hit, age, calls) ==
    [kind |-> "redirect", id |-> q.id, status |-> status,
     location |-> location, mapped |-> q.mapped, late |-> q.late,
     hit |-> hit, age |-> age, calls |-> calls]

\* variant: if (cached), which takes a cached null for a miss
IsCacheHit_Truthy(cached) == cached # UNDEFINED /\ cached # NULL

\* variant: the cached value is never used
IsCacheHit_Never(cached) == FALSE

\* if (cached !== undefined)
IsCacheHit(cached) == cached # UNDEFINED

\* const cached = cacheGet(id); a hit answers at once, a miss issues findUnique
RedirectStart(r) ==
    \E id \in ShortIds :
        LET cached == cacheGetReturn(redirectCache, id, now)
            q == [IdleReq EXCEPT
                    !.id = id,
                    !.mapped = HasShortId(store, id),
                    !.late = \E row \in store :
                               /\ row.shortId = id
                               /\ row.tombAtCreate
                               /\ row.createdAt + CACHE_404_TTL_MS <= now]
            age == IF cached = UNDEFINED THEN 0
                   ELSE LET e == MapGet(redirectCache, id)
                        IN  now - (e.expiresAt - ttlOf(e.value))
        IN  /\ req[r].pc = "idle"
            /\ DoCacheGet(id, 0)
            /\ IF IsCacheHit(cached)
               THEN /\ req' = req
                    /\ sent' = IF cached = NULL
                               THEN RedirectSent(q, 404, NULL, TRUE, age, 0)
                               ELSE RedirectSent(q, 302, cached, TRUE, age, 0)
               ELSE /\ req' = [req EXCEPT ![r] = [q EXCEPT !.pc = "findUnique"]]
                    /\ sent' = NoSent
            /\ UNCHANGED <<CACHE_MAX_ENTRIES, store, op>>

\* variant: the record is written to the cache in the step in which the
\* store answers
DbFindUnique_CachesResult(r) ==
    /\ req[r].pc = "findUnique"
    /\ \E threw \in BOOLEAN :
         /\ req' = [req EXCEPT ![r].pc = "resume",
                               ![r].threw = threw,
                               ![r].record = IF threw THEN NULL
                                             ELSE findUnique(store, req[r].id)]
         /\ IF threw
            THEN /\ lastCall' = NoCall
                 /\ UNCHANGED <<redirectCache, touched>>
            ELSE DoCacheSet(req[r].id, findUnique(store, req[r].id), 0)
    /\ sent' = NoSent
    /\ UNCHANGED <<CACHE_MAX_ENTRIES, store, op>>

\* the store executes findUnique: a record, null, or a failure
DbFindUnique(r) ==
    /\ req[r].pc = "findUnique"
    /\ \E threw \in BOOLEAN :
         req' = [req EXCEPT ![r].pc = "resume",
                            ![r].threw = threw,
                            ![r].record = IF threw THEN NULL
                                          ELSE findUnique(store, req[r].id)]
    /\ lastCall' = NoCall
    /\ sent' = NoSent
    /\ UNCHANGED <<CACHE_MAX_ENTRIES, redirectCache, touched, store, op>>

\* variant: record.originalUrl is read without the test for null, and the
\* TypeError lands in the catch block
RedirectResume_NoNullCheck(r) ==
    /\ req[r].pc = "resume"
    /\ IF req[r].threw \/ req[r].record = NULL
       THEN /\ sent' = RedirectSent(req[r], 500, NULL, FALSE, 0, 1)
            /\ lastCall' = NoCall
            /\ UNCHANGED <<redirectCache, touched>>
       ELSE /\ DoCacheSet(req[r].id, req[r].record, 0)
            /\ sent' = RedirectSent(req[r], 302, req[r].record, FALSE, 0, 1)
    /\ req' = [req EXCEPT ![r] = IdleReq]
    /\ UNCHANGED <<CACHE_MAX_ENTRIES, store, op>>

\* variant: the catch block caches a tombstone before it answers 500
RedirectResume_TombstoneOnError(r) ==
    /\ req[r].pc = "resume"
    /\ IF req[r].threw
       THEN /\ DoCacheSet(req[r].id, NULL, 0)
            /\ sent' = RedirectSent(req[r], 500, NULL, FALSE, 0, 1)
       ELSE IF req[r].record = NULL
       THEN /\ DoCacheSet(req[r].id, NULL, 0)
            /\ sent' = RedirectSent(req[r], 404, NULL, FALSE, 0, 1)
       ELSE /\ DoCacheSet(req[r].id, req[r].record, 0)
            /\ sent' = RedirectSent(req[r], 302, req[r].record, FALSE, 0, 1)
    /\ req' = [req EXCEPT ![r] = IdleReq]
    /\ UNCHANGED <<CACHE_MAX_ENTRIES, store, op>>

\* the handler resumes: negative cache and 404, or cache and redirect;
\* the catch block answers 500
RedirectResume(r) ==
    /\ req[r].pc = "resume"
    /\ IF req[r].threw
       THEN /\ sent' = RedirectSent(req[r], 500, NULL, FALSE, 0, 1)
            /\ lastCall' = NoCall
            /\ UNCHANGED <<redirectCache, touched>>
       ELSE IF req[r].record = NULL
       THEN /\ DoCacheSet(req[r].id, NULL, 0)
            /\ sent' = RedirectSent(req[r], 404, NULL, FALSE, 0, 1)
       ELSE /\ DoCacheSet(req[r].id, req[r].record, 0)
            /\ sent' = RedirectSent(req[r], 302, req[r].record, FALSE, 0, 1)
    /\ req' = [req EXCEPT ![r] = IdleReq]
    /\ UNCHANGED <<CACHE_MAX_ENTRIES, store, op>>

\* ----------------------------------------------------------- documents
\* A string is the sequence of its lexical pieces: blanks, the prefixes
\* the code tests, and the rest.  The strings that occur as attribute
\* values are numbered: 1..NumUrls are web addresses, written with the
\* blanks and capitals HTML allows; after them come the values of
\* NotLinkText; after those the short URLs the handler writes.  An
\* attribute that is absent reads as UNDEFINED.
BASE_URL == "http://localhost:4000"

NotLinkText ==
    << <<>>,
       <<"mailto:", "x">>,
       <<" ", "TEL:", "1">>,
       <<"JavaScript:", "x">>,
       <<"#", "x">>,
       <<"ftp://", "x">>,
       <<"/", "x">> >>

Hrefs == 1..(NumUrls + Len(NotLinkText))

UrlText(h) ==
    IF h % 2 = 1 THEN <<"http://", ToString(h)>>
    ELSE <<" ", "HTTPS://", ToString(h), " ">>

\* `${BASE_URL}/r/${shortId}`
ShortUrl(shortId) == NumUrls + Len(NotLinkText) + shortId

Text(h) ==
    IF h \in Urls THEN UrlText(h)
    ELSE IF h \in Hrefs THEN NotLinkText[h - NumUrls]
    ELSE <<BASE_URL, "/r/", ToString(h - NumUrls - Len(NotLinkText))>>

\* String.prototype.trim, toLowerCase, startsWith
RECURSIVE trimStart(_)
trimStart(s) ==
    IF s # <<>> /\ Head(s) = " " THEN trimStart(Tail(s)) ELSE s

RECURSIVE trimEnd(_)
trimEnd(s) ==
    IF s # <<>> /\ s[Len(s)] = " " THEN trimEnd(SubSeq(s, 1, Len(s) - 1)) ELSE s

trim(s) == trimEnd(trimStart(s))

lowerOf(piece) ==
    CASE piece = "HTTP://" -> "http://"
      [] piece = "HTTPS://" -> "https://"
      [] piece = "TEL:" -> "tel:"
      [] piece = "JavaScript:" -> "javascript:"
      [] OTHER -> piece

toLowerCase(s) == [i \in 1..Len(s) |-> lowerOf(s[i])]

\* a piece begins with itself; the piece BASE_URL begins with its scheme
beginsWith(piece, prefix) ==
    \/ piece = prefix
    \/ piece = BASE_URL /\ prefix = "http://"

startsWith(s, prefix) == s # <<>> /\ beginsWith(Head(s), prefix)

\* variant: the deny list alone, without the final http(s) test
isShortenable_DenyListOnly(href) ==
    IF href = UNDEFINED THEN FALSE
    ELSE IF Text(href) = <<>> THEN FALSE
    ELSE LET lower == toLowerCase(trim(Text(href)))
         IN  IF startsWith(lower, "mailto:") THEN FALSE
             ELSE IF startsWith(lower, "tel:") THEN FALSE
             ELSE IF startsWith(lower, "javascript:") THEN FALSE
             ELSE IF startsWith(lower, "#") THEN FALSE
             ELSE TRUE

\* variant: values under BASE_URL/r/ are taken for the service's own
\* links and left alone
isShortenable_SkipOwn(href) ==
    IF href = UNDEFINED THEN FALSE
    ELSE IF Text(href) = <<>> THEN FALSE
    ELSE LET lower == toLowerCase(trim(Text(href)))
         IN  IF startsWith(lower, "mailto:") THEN FALSE
             ELSE IF startsWith(lower, "tel:") THEN FALSE
             ELSE IF startsWith(lower, "javascript:") THEN FALSE
             ELSE IF startsWith(lower, "#") THEN FALSE
             ELSE IF Head(lower) = BASE_URL THEN FALSE
             ELSE startsWith(lower, "http://") \/ startsWith(lower, "https://")

isShortenable(href) ==
    IF href = UNDEFINED THEN FALSE
    ELSE IF Text(href) = <<>> THEN FALSE
    ELSE LET lower == toLowerCase(trim(Text(href)))
         IN  IF startsWith(lower, "mailto:") THEN FALSE
             ELSE IF startsWith(lower, "tel:") THEN FALSE
             ELSE IF startsWith(lower, "javascript:") THEN FALSE
             ELSE IF startsWith(lower, "#") THEN FALSE
             ELSE startsWith(lower, "http://") \/ startsWith(lower, "https://")

\* A document is the sequence of its elements, each with one attribute.
attrTargets ==
    << <<"a", "href">>, <<"area", "href">>, <<"link", "href">>,
       <<"img", "src">>, <<"script", "src">> >>

Element(tag, attr, value) == [tag |-> tag, attr |-> attr, value |-> value]

\* $el.attr(attr)
attrOf(el, attr) == IF el.attr = attr THEN el.value ELSE UNDEFINED

\* the values the first pass hands to cache.set for one target, in
\* document order
RECURSIVE collectTarget(_, _)
collectTarget(doc, target) ==
    IF doc = <<>> THEN <<>>
    ELSE LET el == Head(doc)
             href == attrOf(el, target[2])
         IN  (IF el.tag = target[1] /\ isShortenable(href)
              THEN <<href>> ELSE <<>>)
             \o collectTarget(Tail(doc), target)

RECURSIVE collectAll(_, _)
collectAll(doc, t) ==
    IF t > Len(attrTargets) THEN <<>>
    ELSE collectTarget(doc, attrTargets[t]) \o collectAll(doc, t + 1)

\* the keys of a Map after the values of q were set in turn
RECURSIVE keysOf(_, _)
keysOf(q, seen) ==
    IF q = <<>> THEN <<>>
    ELSE IF Head(q) \in seen THEN keysOf(Tail(q), seen)
    ELSE <<Head(q)>> \o keysOf(Tail(q), seen \cup {Head(q)})

\* variant: no placeholder, one key per occurrence
Collect_NoDedup(doc) == collectAll(doc, 1)

\* first pass and uniqueUrls = Array.from(new Set(Array.from(cache.keys())))
Collect(doc) == keysOf(collectAll(doc, 1), {})

\* the request's table: PLACEHOLDER ('') until the address is resolved,
\* then its shortId (the cell stands for the short URL of that shortId)
PLACEHOLDER == 0

\* cache.get(href)
cellOf(urls, cache, href) ==
    IF \E k \in 1..Len(urls) : urls[k] = href
    THEN cache[CHOOSE k \in 1..Len(urls) : urls[k] = href]
    ELSE PLACEHOLDER

targetOf(el) ==
    IF \E t \in 1..Len(attrTargets) : attrTargets[t][1] = el.tag
    THEN attrTargets[CHOOSE t \in 1..Len(attrTargets) : attrTargets[t][1] = el.tag]
    ELSE <<>>

\* variant: the short URL of every address carries the first cell
Rewrite_FirstCell(doc, urls, cache) ==
    [n \in 1..Len(doc) |->
        LET el == doc[n]
            target == targetOf(el)
        IN  IF target = <<>> THEN el
            ELSE LET href == attrOf(el, target[2])
                 IN  IF isShortenable(href)
                        /\ cellOf(urls, cache, href) # PLACEHOLDER
                     THEN [el EXCEPT !.value = ShortUrl(cache[1])]
                     ELSE el]

\* second pass: every targeted attribute whose value is shortenable and
\* has a short URL in the table gets it
Rewrite(doc, urls, cache) ==
    [n \in 1..Len(doc) |->
        LET el == doc[n]
            target == targetOf(el)
        IN  IF target = <<>> THEN el
            ELSE LET href == attrOf(el, target[2])
                 IN  IF isShortenable(href)
                        /\ cellOf(urls, cache, href) # PLACEHOLDER
                     THEN [el EXCEPT !.value = ShortUrl(cellOf(urls, cache, href))]
                     ELSE el]

\* ------------------------------------------------ POST /shorten handler
\* doc: the parsed document; uniqueUrls: its distinct shortenable values;
\* cache: the request's table, one cell per address.  Bookkeeping: finds
\* and rows count, per address, the findFirst calls the store executed and
\* the rows it created for this request; fresh is the set of addresses of
\* the document without mapping when the request started; alone tells that
\* no other shorten request was in flight at any time since; raced records
\* that a create of this request was rejected by the unique constraint on
\* originalUrl.
\* The input of a request as the handler reads it: is, the content type
\* req.is matches; file, whether req.file is set; body and html, the values
\* of req.body and req.body?.html, each "undefined", "empty" (the string
\* of length 0), "string" (the text of a document) or "object".
Truthy(v) == v \in {"string", "object"}

\* a raw HTML body carrying a document
DocRequest ==
    [is |-> "text/html", file |-> FALSE, body |-> "string", html |-> "undefined"]

\* the inputs express hands to the handler: a form with or without the
\* file; a text body; a parsed JSON value, an object, with or without
\* html; any body under another content type
ShortenRequests ==
    {[is |-> "multipart/form-data", file |-> f, body |-> "object",
      html |-> "undefined"] : f \in BOOLEAN}
    \cup {[is |-> "text/html", file |-> FALSE, body |-> b,
           html |-> "undefined"] : b \in {"empty", "string"}}
    \cup {[is |-> "application/json", file |-> FALSE, body |-> "object",
           html |-> h] : h \in {"undefined", "empty", "string"}}
    \cup {[is |-> "other", file |-> FALSE, body |-> b,
           html |-> "undefined"] : b \in {"undefined", "empty", "string", "object"}}

\* the input checks: "400", "415", or the kind of value assigned to html,
\* which cheerio.load receives
Validate(rq) ==
    IF rq.is = "multipart/form-data"
    THEN IF ~rq.file THEN "400" ELSE "string"
    ELSE IF rq.is \in {"text/html", "application/json"}
    THEN LET raw == IF Truthy(rq.html) THEN rq.html ELSE rq.body
         IN  IF ~Truthy(raw) THEN "400" ELSE raw
    ELSE "415"

DistinctSeqs(S, n) ==
    {q \in UNION {[1..m -> S] : m \in 0..n} :
        \A a, b \in 1..Len(q) : a # b => q[a] # q[b]}

IdleOp ==
    [pc |-> "idle", doc |-> <<>>, uniqueUrls |-> <<>>, i |-> 0, cache |-> <<>>,
     existing |-> NULL, threw |-> FALSE, attempt |-> 0, shortId |-> 0,
     result |-> "none", raced |-> FALSE,
     finds |-> <<>>, rows |-> <<>>, fresh |-> {}, alone |-> TRUE,
     request |-> DocRequest]

\* The response of a shorten request: 200 with the rewritten document as
\* html, or 500 with a json error and no document; cause names what failed.
ShortenSent(o, status, cause) ==
    [kind |-> "shorten", status |-> status, cause |-> cause,
     uniqueUrls |-> o.uniqueUrls, cache |-> o.cache, i |-> o.i,
     raced |-> o.raced, attempt |-> o.attempt, result |-> o.result,
     doc |-> o.doc,
     body |-> IF status = 200 THEN "html" ELSE "json",
     output |-> IF status = 200 THEN Rewrite(o.doc, o.uniqueUrls, o.cache)
                ELSE <<>>,
     finds |-> o.finds, rows |-> o.rows, fresh |-> o.fresh, alone |-> o.alone,
     request |-> o.request]

\* the handler up to its first await: parse, collect (urls is uniqueUrls),
\* then findFirst for the first address; a document without shortenable
\* value is answered at once
ShortenStart(s, docs) ==
    /\ op[s].pc = "idle"
    /\ \E doc \in docs : \E urls \in {Collect(doc)} :
        LET o == [IdleOp EXCEPT
                    !.doc = doc,
                    !.uniqueUrls = urls,
                    !.cache = [k \in 1..Len(urls) |-> PLACEHOLDER],
                    !.finds = [k \in 1..Len(urls) |-> 0],
                    !.rows = [k \in 1..Len(urls) |-> 0],
                    !.fresh = {urls[k] : k \in 1..Len(urls)}
                              \ {row.originalUrl : row \in store},
                    !.alone = \A x \in Ops \ {s} : op[x].pc = "idle"]
        IN  IF Len(urls) > 0
            THEN /\ op' = [x \in Ops |->
                             IF x = s
                             THEN [o EXCEPT !.pc = "findFirst", !.i = 1]
                             ELSE IF op[x].pc = "idle" THEN op[x]
                             ELSE [op[x] EXCEPT !.alone = FALSE]]
                 /\ sent' = NoSent
            ELSE /\ op' = op
                 /\ sent' = ShortenSent(o, 200, "none")
    /\ lastCall' = NoCall
    /\ UNCHANGED <<CACHE_MAX_ENTRIES, redirectCache, touched, store, req>>

\* the handler for an input that yields no document text: 400 or 415 at
\* once; or html is an object, of which cheerio.load makes a document
\* without element or a failure
ShortenValidate(s, requests) ==
    /\ op[s].pc = "idle"
    /\ \E rq \in requests :
         LET v == Validate(rq)
             o == [IdleOp EXCEPT !.request = rq]
         IN  /\ v # "string"
             /\ IF v = "400" THEN sent' = ShortenSent(o, 400, "input")
                ELSE IF v = "415" THEN sent' = ShortenSent(o, 415, "input")
                ELSE \/ sent' = ShortenSent(o, 200, "none")
                     \/ sent' = ShortenSent(o, 500, "parse")
    /\ lastCall' = NoCall
    /\ UNCHANGED <<CACHE_MAX_ENTRIES, redirectCache, touched, store, req, op>>

\* variant: the lookups of all addresses are issued together (Promise.all)
\* and the store executes them in one go
DbFindFirst_AllAtOnce(s) ==
    /\ op[s].pc = "findFirst"
    /\ \E threw \in BOOLEAN :
         op' = [op EXCEPT ![s].pc = "afterFind",
                          ![s].threw = threw,
                          ![s].finds = [k \in 1..Len(op[s].finds) |->
                                          IF k >= op[s].i THEN 1 ELSE @[k]],
                          ![s].existing =
                              IF threw THEN NULL
                              ELSE findFirst(store, op[s].uniqueUrls[op[s].i])]
    /\ lastCall' = NoCall
    /\ sent' = NoSent
    /\ UNCHANGED <<CACHE_MAX_ENTRIES, redirectCache, touched, store, req>>

\* the store executes findFirst for the current address
DbFindFirst(s) ==
    /\ op[s].pc = "findFirst"
    /\ \E threw \in BOOLEAN :
         op' = [op EXCEPT ![s].pc = "afterFind",
                          ![s].threw = threw,
                          ![s].finds[op[s].i] = @ + 1,
                          ![s].existing =
                              IF threw THEN NULL
                              ELSE findFirst(store, op[s].uniqueUrls[op[s].i])]
    /\ lastCall' = NoCall
    /\ sent' = NoSent
    /\ UNCHANGED <<CACHE_MAX_ENTRIES, redirectCache, touched, store, req>>

\* variant: the short URL is written to every cell of the table
Resolved_AllCells(o, id) ==
    [o EXCEPT !.cache = [k \in 1..Len(o.cache) |-> id],
              !.existing = NULL, !.attempt = 0, !.shortId = 0,
              !.result = "none"]

\* cache.set(originalUrl, short URL): the table after the current address
\* got shortId id
Resolved(o, id) ==
    [o EXCEPT !.cache = [o.cache EXCEPT ![o.i] = id],
              !.existing = NULL, !.attempt = 0, !.shortId = 0,
              !.result = "none"]

\* after an address is resolved: the next address, or the 200 response
Continue(s, o) ==
    IF o.i < Len(o.uniqueUrls)
    THEN /\ op' = [op EXCEPT ![s] = [o EXCEPT !.i = o.i + 1, !.pc = "findFirst"]]
         /\ sent' = NoSent
    ELSE /\ op' = [op EXCEPT ![s] = IdleOp]
         /\ sent' = ShortenSent(o, 200, "none")

\* variant: the catch block sends the document back as it came
Fail_ReturnUnmodified(s, o, cause) ==
    /\ op' = [op EXCEPT ![s] = IdleOp]
    /\ sent' = [ShortenSent(o, 500, cause) EXCEPT
                   !.status = 200, !.body = "html", !.output = o.doc]

\* the catch block: 500, no document
Fail(s, o, cause) ==
    /\ op' = [op EXCEPT ![s] = IdleOp]
    /\ sent' = ShortenSent(o, 500, cause)

\* variant: a failed lookup takes back the rows the request created for
\* its earlier addresses (the loop in a transaction)
ShortenAfterFind_Rollback(s) ==
    /\ op[s].pc = "afterFind"
    /\ IF op[s].threw
       THEN /\ Fail(s, op[s], "findFirst")
            /\ store' = {row \in store :
                            \A k \in 1..Len(op[s].uniqueUrls) :
                                ~(/\ op[s].rows[k] = 1
                                  /\ row.originalUrl = op[s].uniqueUrls[k])}
       ELSE IF op[s].existing # NULL
       THEN /\ Continue(s, Resolved(op[s], op[s].existing))
            /\ store' = store
       ELSE /\ \E id \in ShortIds :
                 op' = [op EXCEPT ![s].pc = "create", ![s].attempt = 0,
                                  ![s].shortId = id]
            /\ sent' = NoSent
            /\ store' = store
    /\ lastCall' = NoCall
    /\ UNCHANGED <<CACHE_MAX_ENTRIES, redirectCache, touched, req>>

\* the handler resumes after findFirst: reuse the existing shortId, or call
\* createUrlWithUniqueShortId(originalUrl, 8, 6), whose first step draws a
\* nanoid and issues create
ShortenAfterFind(s) ==
    /\ op[s].pc = "afterFind"
    /\ IF op[s].threw
       THEN Fail(s, op[s], "findFirst")
       ELSE IF op[s].existing # NULL
       THEN Continue(s, Resolved(op[s], op[s].existing))
       ELSE /\ \E id \in ShortIds :
                 op' = [op EXCEPT ![s].pc = "create", ![s].attempt = 0,
                                  ![s].shortId = id]
            /\ sent' = NoSent
    /\ lastCall' = NoCall
    /\ UNCHANGED <<CACHE_MAX_ENTRIES, redirectCache, touched, store, req>>

\* variant: create writes the new mapping through to the redirect cache
DbCreate_WriteThrough(s) ==
    LET id == op[s].shortId
        url == op[s].uniqueUrls[op[s].i]
    IN  /\ op[s].pc = "create"
        /\ \E result \in createOutcomes(store, id, url) :
             /\ op' = [op EXCEPT ![s].pc = "afterCreate",
                                 ![s].result = result,
                                 ![s].raced = @ \/ result = "P2002_originalUrl",
                                 ![s].rows[op[s].i] =
                                     IF result = "ok" THEN @ + 1 ELSE @]
             /\ store' = IF result = "ok"
                         THEN store \cup
                              {Row(id, url, now,
                                   LiveTombstone(redirectCache, id, now))}
                         ELSE store
             /\ IF result = "ok"
                THEN DoCacheSet(id, url, 0)
                ELSE /\ lastCall' = NoCall
                     /\ UNCHANGED <<redirectCache, touched>>
        /\ sent' = NoSent
        /\ UNCHANGED <<CACHE_MAX_ENTRIES, req>>

\* variant: create replaces the rows that stand in its way (an upsert)
DbCreate_ReplaceOnCollision(s) ==
    LET id == op[s].shortId
        url == op[s].uniqueUrls[op[s].i]
    IN  /\ op[s].pc = "create"
        /\ op' = [op EXCEPT ![s].pc = "afterCreate",
                            ![s].result = "ok",
                            ![s].rows[op[s].i] = @ + 1]
        /\ store' = {row \in store : row.shortId # id /\ row.originalUrl # url}
                     \cup {Row(id, url, now,
                                LiveTombstone(redirectCache, id, now))}
        /\ lastCall' = NoCall
        /\ sent' = NoSent
        /\ UNCHANGED <<CACHE_MAX_ENTRIES, redirectCache, touched, req>>

\* the store executes create({ shortId, originalUrl })
DbCreate(s) ==
    LET id == op[s].shortId
        url == op[s].uniqueUrls[op[s].i]
    IN  /\ op[s].pc = "create"
        /\ \E result \in createOutcomes(store, id, url) :
             /\ op' = [op EXCEPT ![s].pc = "afterCreate",
                                 ![s].result = result,
                                 ![s].raced = @ \/ result = "P2002_originalUrl",
                                 ![s].rows[op[s].i] =
                                     IF result = "ok" THEN @ + 1 ELSE @]
             /\ store' = IF result = "ok"
                         THEN store \cup
                              {Row(id, url, now,
                                   LiveTombstone(redirectCache, id, now))}
                         ELSE store
        /\ lastCall' = NoCall
        /\ sent' = NoSent
        /\ UNCHANGED <<CACHE_MAX_ENTRIES, redirectCache, touched, req>>

\* variant: a rejected create is never retried
createUrlWithUniqueShortId_NoRetry(result, attempt, maxAttempts) ==
    IF result = "ok" THEN "return"
    ELSE IF result \in {"P2002_shortId", "P2002_noTarget"}
    THEN "exhausted"
    ELSE "rethrow"

\* variant: every failure of create is retried
createUrlWithUniqueShortId_RetryAll(result, attempt, maxAttempts) ==
    IF result = "ok" THEN "return"
    ELSE IF attempt + 1 < maxAttempts THEN "retry" ELSE "exhausted"

\* variant: the loop test admits one attempt more
createUrlWithUniqueShortId_OneMore(result, attempt, maxAttempts) ==
    IF result = "ok" THEN "return"
    ELSE IF result \in {"P2002_shortId", "P2002_noTarget"}
    THEN IF attempt < maxAttempts THEN "retry" ELSE "exhausted"
    ELSE "rethrow"

\* variant: a violation is retried only when its target names shortId
createUrlWithUniqueShortId_TargetRequired(result, attempt, maxAttempts) ==
    IF result = "ok" THEN "return"
    ELSE IF result = "P2002_shortId"
    THEN IF attempt + 1 < maxAttempts THEN "retry" ELSE "exhausted"
    ELSE "rethrow"

\* createUrlWithUniqueShortId after a create: "return" the shortId; "retry"
\* on P2002 with target shortId or without target while attempts are left,
\* "exhausted" (throw lastError) when they are used up; "rethrow" otherwise
createUrlWithUniqueShortId(result, attempt, maxAttempts) ==
    IF result = "ok" THEN "return"
    ELSE IF result \in {"P2002_shortId", "P2002_noTarget"}
    THEN IF attempt + 1 < maxAttempts THEN "retry" ELSE "exhausted"
    ELSE "rethrow"

ShortenAfterCreate(s) ==
    LET o == op[s]
        next == createUrlWithUniqueShortId(o.result, o.attempt, MAX_ATTEMPTS)
    IN  /\ o.pc = "afterCreate"
        /\ IF next = "return" THEN Continue(s, Resolved(o, o.shortId))
           ELSE IF next = "retry"
           THEN /\ \E id \in ShortIds :
                     op' = [op EXCEPT ![s].pc = "create",
                                      ![s].attempt = o.attempt + 1,
                                      ![s].shortId = id,
                                      ![s].result = "none"]
                /\ sent' = NoSent
           ELSE Fail(s, o, next)
        /\ lastCall' = NoCall
        /\ UNCHANGED <<CACHE_MAX_ENTRIES, redirectCache, touched, store, req>>

\* ------------------------------------- the cache under arbitrary calls
CallCacheGet ==
    \E key \in CacheKeys :
        /\ DoCacheGet(key, HitKey(lastCall))
        /\ UNCHANGED <<CACHE_MAX_ENTRIES, store, req, op, sent>>

CallCacheSet ==
    \E key \in CacheKeys, value \in CacheValues :
        /\ DoCacheSet(key, value, HitKey(lastCall))
        /\ UNCHANGED <<CACHE_MAX_ENTRIES, store, req, op, sent>>

Init ==
    /\ CACHE_MAX_ENTRIES \in 1..MaxCap
    /\ redirectCache = <<>>
    /\ lastCall = NoCall
    /\ touched = <<>>
    /\ store = {}
    /\ req = [r \in Reqs |-> IdleReq]
    /\ op = [s \in Ops |-> IdleOp]
    /\ sent = NoSent

NextCache == CallCacheGet \/ CallCacheSet \/ Tick

SpecCache == Init /\ [][NextCache]_vars

\* ------------------------------------------------------ the service
\* the documents of the service runs: one anchor per address
PlainDocs(n) ==
    {[k \in 1..Len(q) |-> Element("a", "href", q[k])] :
        q \in DistinctSeqs(Urls, n)}

\* one redirect request at a time beside one shorten request at a time, of
\* a document with at most SoloDocUrls addresses
Redirect(r) == RedirectStart(r) \/ DbFindUnique(r) \/ RedirectResume(r)

Shorten(s, docs) ==
    \/ ShortenStart(s, docs)
    \/ DbFindFirst(s)
    \/ ShortenAfterFind(s)
    \/ DbCreate(s)
    \/ ShortenAfterCreate(s)

SoloDocs == PlainDocs(SoloDocUrls)
PairDocs == PlainDocs(MaxDocUrls)

Next == Tick \/ Redirect(1) \/ Shorten(1, SoloDocs)

Spec == Init /\ [][Next]_vars

\* concurrent shorten requests: one of documents with at most MaxDocUrls
\* addresses, the others of documents with at most SoloDocUrls
NextShorten ==
    \/ Shorten(1, PairDocs)
    \/ \E s \in Ops \ {1} : Shorten(s, SoloDocs)

SpecShorten == Init /\ [][NextShorten]_vars

\* concurrent redirect requests over a store that no request changes: any
\* table with both columns unique, its rows older than CACHE_404_TTL_MS
Stores ==
    {st \in SUBSET {Row(id, url, now - CACHE_404_TTL_MS, FALSE) :
                        id \in ShortIds, url \in Urls} :
        \A a, b \in st :
            (a.shortId = b.shortId \/ a.originalUrl = b.originalUrl) => a = b}

InitRedirect ==
    /\ CACHE_MAX_ENTRIES \in 1..MaxCap
    /\ redirectCache = <<>>
    /\ lastCall = NoCall
    /\ touched = <<>>
    /\ store \in Stores
    /\ req = [r \in Reqs |-> IdleReq]
    /\ op = [s \in Ops |-> IdleOp]
    /\ sent = NoSent

NextRedirect == Tick \/ \E r \in Reqs : Redirect(r)

SpecRedirect == InitRedirect /\ [][NextRedirect]_vars

\* one shorten request, of any document of at most MaxElems elements (every
\* address on every target and on two attributes that are no target, every
\* other value on an anchor) or of an input without document text, over
\* any table; the run ends with the response
DocElements ==
    {Element(attrTargets[t][1], attrTargets[t][2], h) :
        t \in 1..Len(attrTargets), h \in Urls}
    \cup {Element("img", "href", h) : h \in Urls}
    \cup {Element("iframe", "src", h) : h \in Urls}
    \cup {Element("a", "href", h) : h \in Hrefs \ Urls}

Docs == UNION {[1..n -> DocElements] : n \in 0..MaxElems}

InitDocument ==
    /\ CACHE_MAX_ENTRIES = MaxCap
    /\ redirectCache = <<>>
    /\ lastCall = NoCall
    /\ touched = <<>>
    /\ store \in Stores
    /\ req = [r \in Reqs |-> IdleReq]
    /\ op = [s \in Ops |-> IdleOp]
    /\ sent = NoSent

NextDocument ==
    \/ sent = NoSent /\ ShortenStart(1, Docs)
    \/ sent = NoSent /\ ShortenValidate(1, ShortenRequests)
    \/ DbFindFirst(1)
    \/ ShortenAfterFind(1)
    \/ DbCreate(1)
    \/ ShortenAfterCreate(1)

SpecDocument == InitDocument /\ [][NextDocument]_vars

\* concurrent redirect requests beside one shorten request at a time, the
\* clock standing still
NextRace == (\E r \in Reqs : Redirect(r)) \/ Shorten(1, SoloDocs)

SpecRace == Init /\ [][NextRace]_vars

\* one shorten request at a time, of a document with at most SoloDocUrls
\* addresses; the store answers every call and the event loop runs every
\* continuation that is ready
SpecAllocation ==
    Init /\ [][Shorten(1, SoloDocs)]_vars /\ WF_vars(Shorten(1, SoloDocs))

\* one shorten request at a time, of a document with at most SoloDocUrls
\* addresses or of the document of the 200 response just sent
Reshorten ==
    /\ sent.kind = "shorten"
    /\ sent.status = 200
    /\ ShortenStart(1, {sent.output})

NextReshorten == Shorten(1, SoloDocs) \/ Reshorten

SpecReshorten == Init /\ [][NextReshorten]_vars

\* ======================================================== the claims
Others(cache, k) == SelectSeq(cache, LAMBDA e : e.key # k)

\* C1: after any sequence of cacheGet and cacheSet calls and clock
\* advances, the cache holds at most CACHE_MAX_ENTRIES entries, whatever
\* their kind (live, expired, positive, tombstone).
C1_CacheBounded == Len(redirectCache) <= CACHE_MAX_ENTRIES

C1_Witness ==
    /\ lastCall.op = "set"
    /\ lastCall.evicted # {}
    /\ CACHE_MAX_ENTRIES >= 2
    /\ Len(redirectCache) = CACHE_MAX_ENTRIES
    /\ \E i \in 1..Len(redirectCache) :
         redirectCache[i].expiresAt <= now /\ redirectCache[i].value = NULL
    /\ \E i \in 1..Len(redirectCache) :
         redirectCache[i].expiresAt > now /\ redirectCache[i].value # NULL

\* C5: a cacheGet(key) that finds a live entry (expiresAt > now) returns
\* the entry's value, leaves the entry last in the order (most recently
\* used) with the same value and expiry now + Tneg for a tombstone,
\* now + Tpos otherwise, and leaves the other entries as they were.
C5_GetHitRefreshes ==
    [][\A k \in CacheKeys :
        (/\ lastCall'.op = "get"
         /\ lastCall'.key = k
         /\ MapHas(redirectCache, k)
         /\ MapGet(redirectCache, k).expiresAt > now)
        => LET e == MapGet(redirectCache, k)
               n == Len(redirectCache')
           IN  /\ lastCall'.ret = e.value
               /\ n = Len(redirectCache)
               /\ redirectCache'[n].key = k
               /\ redirectCache'[n].value = e.value
               /\ redirectCache'[n].expiresAt =
                    now + (IF e.value = NULL THEN CACHE_404_TTL_MS
                                             ELSE CACHE_TTL_MS)
               /\ Others(redirectCache', k) = Others(redirectCache, k)]_vars

\* a hit on a tombstone written before the entry that precedes it expired:
\* the tombstone is last and has a full CACHE_404_TTL_MS again
C5_Witness ==
    /\ lastCall.op = "get"
    /\ lastCall.ret = NULL
    /\ Len(redirectCache) >= 2
    /\ redirectCache[Len(redirectCache)].key = lastCall.key
    /\ redirectCache[Len(redirectCache)].expiresAt = now + CACHE_404_TTL_MS
    /\ redirectCache[1].expiresAt <= now

\* C8: cacheGet(key) on an entry whose expiry has passed (expiresAt <= now)
\* returns undefined and removes exactly that entry; cacheGet on an absent
\* key returns undefined and leaves the cache unchanged.
C8_GetMiss ==
    [][\A k \in CacheKeys :
        (lastCall'.op = "get" /\ lastCall'.key = k)
        => /\ (MapHas(redirectCache, k)
                 /\ MapGet(redirectCache, k).expiresAt <= now)
              => /\ lastCall'.ret = UNDEFINED
                 /\ ~MapHas(redirectCache', k)
                 /\ redirectCache' = Others(redirectCache, k)
           /\ ~MapHas(redirectCache, k)
              => /\ lastCall'.ret = UNDEFINED
                 /\ redirectCache' = redirectCache]_vars

\* an expired entry has just been removed by a cacheGet of its key, and
\* another entry stayed
C8_Witness ==
    /\ lastCall.op = "get"
    /\ lastCall.ret = UNDEFINED
    /\ lastCall.evicted = {lastCall.key}
    /\ Len(redirectCache) >= 1

\* C7 as stated: an insertion that overflows the cache (the key is not
\* cached and the cache holds CACHE_MAX_ENTRIES entries) removes exactly
\* the key least recently inserted or read, which is the first inserted
\* when none was read; and a key read by a hit just before the overflowing
\* insertion is not the one removed.
Overflows(k) ==
    /\ lastCall'.op = "set"
    /\ lastCall'.key = k
    /\ ~MapHas(redirectCache, k)
    /\ Len(redirectCache) = CACHE_MAX_ENTRIES

EvictsLeastRecent(k) ==
    /\ Head(touched) # k
    /\ MapKeys(redirectCache') =
         (MapKeys(redirectCache) \ {Head(touched)}) \cup {k}
    /\ Len(redirectCache') = CACHE_MAX_ENTRIES

C7_Original ==
    [][\A k \in CacheKeys :
        Overflows(k)
        => /\ EvictsLeastRecent(k)
           /\ HitKey(lastCall) # 0
              => MapHas(redirectCache', HitKey(lastCall))]_vars

\* C7, amended: the same, the read key being kept when the capacity is at
\* least 2 (with capacity 1 the key read is the only entry, and the
\* overflowing insertion removes it).
C7_LruEviction ==
    [][\A k \in CacheKeys :
        Overflows(k)
        => /\ EvictsLeastRecent(k)
           /\ (CACHE_MAX_ENTRIES >= 2 /\ HitKey(lastCall) # 0)
              => MapHas(redirectCache', HitKey(lastCall))]_vars

\* an overflowing insertion right after a hit on the first inserted key:
\* the key read is still cached, another key was removed
C7_Witness ==
    /\ lastCall.op = "set"
    /\ lastCall.evicted # {}
    /\ lastCall.prev # 0
    /\ CACHE_MAX_ENTRIES >= 2
    /\ redirectCache[1].key = lastCall.prev
    /\ lastCall.prev \notin lastCall.evicted

\* C6 as stated: every cacheSet(key, value) leaves key last in the order
\* (most recently used), with the value and expiry now + Tneg for a
\* tombstone, now + Tpos otherwise, whether or not key was cached before.
C6_SetIsMostRecent ==
    lastCall.op = "set"
    => /\ Len(redirectCache) >= 1
       /\ redirectCache[Len(redirectCache)] =
            Entry(lastCall.key, lastCall.value,
                  now + (IF lastCall.value = NULL THEN CACHE_404_TTL_MS
                                                  ELSE CACHE_TTL_MS))

\* the mapping the store holds for the identifier of the response sent
Mapping == findUnique(store, sent.id)

\* C2 as stated: a redirect resolution of S, made CACHE_404_TTL_MS or more
\* after a mapping for S was created while a tombstone for S was cached,
\* returns the mapping (a store failure apart).
C2_Original ==
    (sent.kind = "redirect" /\ sent.late /\ sent.status # 500)
    => (sent.status = 302 /\ sent.location = Mapping)

\* C2, amended: such a resolution returns the mapping unless the tombstone
\* it finds was written or refreshed by a redirect resolution of S less
\* than CACHE_404_TTL_MS before it (every hit restarts the tombstone's
\* window), in which case it answers not-found from the cache; a store
\* failure gives a server error.
C2_StaleNotFoundBounded ==
    (sent.kind = "redirect" /\ sent.late)
    => \/ sent.status = 302 /\ sent.location = Mapping
       \/ sent.status = 500 /\ ~sent.hit
       \/ /\ sent.status = 404
          /\ sent.hit
          /\ sent.age < CACHE_404_TTL_MS
          /\ sent.calls = 0

\* the tombstone cached when the mapping was created has expired, and the
\* resolution read the mapping from the store
C2_Witness ==
    /\ sent.kind = "redirect"
    /\ sent.late
    /\ sent.status = 302
    /\ ~sent.hit
    /\ sent.location = Mapping

\* C3 as stated: once the store maps S to U, every redirect resolution of
\* S yields U (a store failure apart), whatever lookups of S came before.
C3_Original ==
    (sent.kind = "redirect" /\ sent.mapped /\ sent.status # 500)
    => (sent.status = 302 /\ sent.location = Mapping)

\* C3, amended: once the store maps S to U, a redirect resolution of S
\* yields U, or not-found from a live tombstone that a lookup of S cached
\* from a store read made before the mapping existed, or a server error
\* when its store lookup fails; and no resolution ever yields an address
\* other than the one the store maps S to.
C3_RoundTrip ==
    sent.kind = "redirect"
    => /\ sent.status = 302 => (Mapping # NULL /\ sent.location = Mapping)
       /\ sent.mapped
          => \/ sent.status = 302
             \/ sent.status = 404 /\ sent.hit /\ sent.calls = 0
             \/ sent.status = 500 /\ ~sent.hit /\ sent.calls = 1

\* a mapping created while a tombstone for its shortId was cached is
\* resolved from the store, beside another mapping
C3_Witness ==
    /\ sent.kind = "redirect"
    /\ sent.mapped
    /\ sent.status = 302
    /\ ~sent.hit
    /\ Cardinality(store) >= 2
    /\ \E row \in store : row.shortId = sent.id /\ row.tombAtCreate

\* C4 as stated: a shorten request whose create was rejected by the unique
\* constraint on originalUrl (another request created the mapping after
\* this one's findFirst) answers 200, each address rewritten with the
\* shortId the store holds for it.
C4_RaceRecovered ==
    (sent.kind = "shorten" /\ sent.raced)
    => /\ sent.status = 200
       /\ \A k \in 1..Len(sent.uniqueUrls) :
            sent.cache[k] = findFirst(store, sent.uniqueUrls[k])

\* C9: (a) when a redirect resolution of S missed the cache and found a
\* mapping in the store, the cache holds for S exactly the store's
\* originalUrl, and that is the address sent; (b) a resolution of S that
\* finds this entry cached and live (less than CACHE_TTL_MS after it was
\* written or refreshed, not evicted) answers with that address, makes no
\* store call and leaves no request waiting for the store.
C9_CacheStoreAgreement ==
    [][/\ (sent'.kind = "redirect" /\ ~sent'.hit /\ sent'.status = 302)
          => /\ MapHas(redirectCache', sent'.id)
             /\ MapGet(redirectCache', sent'.id).value = findUnique(store', sent'.id)
             /\ sent'.location = findUnique(store', sent'.id)
             /\ sent'.location # NULL
       /\ \A id \in ShortIds :
            (/\ lastCall'.op = "get"
             /\ lastCall'.key = id
             /\ MapHas(redirectCache, id)
             /\ MapGet(redirectCache, id).value # NULL
             /\ MapGet(redirectCache, id).expiresAt > now)
            => /\ sent'.kind = "redirect"
               /\ sent'.id = id
               /\ sent'.status = 302
               /\ sent'.location = MapGet(redirectCache, id).value
               /\ sent'.calls = 0
               /\ req' = req
               /\ store' = store]_vars

\* a resolution answered from a positive entry some time after the entry
\* was written
C9_Witness ==
    /\ sent.kind = "redirect"
    /\ sent.hit
    /\ sent.status = 302
    /\ sent.age >= 1
    /\ sent.calls = 0
    /\ sent.location = Mapping

\* C10: (a) when a redirect resolution of S read no mapping from the store,
\* the cache holds a tombstone for S with expiry now + CACHE_404_TTL_MS and
\* the answer is not-found; (b) a resolution of S that finds a live
\* tombstone answers not-found from the cache, with no store call, whether
\* or not the store holds a mapping for S by then.
C10_NegativeCache ==
    [][/\ (sent'.kind = "redirect" /\ ~sent'.hit /\ sent'.status = 404)
          => /\ MapHas(redirectCache', sent'.id)
             /\ MapGet(redirectCache', sent'.id).value = NULL
             /\ MapGet(redirectCache', sent'.id).expiresAt = now + CACHE_404_TTL_MS
       /\ \A id \in ShortIds :
            (/\ lastCall'.op = "get"
             /\ lastCall'.key = id
             /\ MapHas(redirectCache, id)
             /\ MapGet(redirectCache, id).value = NULL
             /\ MapGet(redirectCache, id).expiresAt > now)
            => /\ sent'.kind = "redirect"
               /\ sent'.id = id
               /\ sent'.status = 404
               /\ sent'.calls = 0
               /\ req' = req
               /\ store' = store]_vars

\* not-found answered from a tombstone while the store holds a mapping
C10_Witness ==
    /\ sent.kind = "redirect"
    /\ sent.hit
    /\ sent.status = 404
    /\ sent.mapped
    /\ sent.calls = 0
    /\ Mapping # NULL

\* C11: a redirect request looks in the cache first; it goes to the store
\* only after a miss; a cache hit answers at once, with no store lookup and
\* no request left waiting for the store; and the step that answers from
\* the store has put the answer in the cache (the address on a store hit, a
\* tombstone on a store miss) when the response leaves.
C11_RedirectOrder ==
    [][/\ \A r \in Reqs :
            /\ (req[r].pc = "idle" /\ req'[r].pc # "idle")
               => /\ req'[r].pc = "findUnique"
                  /\ lastCall'.op = "get"
                  /\ lastCall'.key = req'[r].id
                  /\ lastCall'.ret = UNDEFINED
                  /\ sent' = NoSent
            /\ (req[r].pc # "resume" /\ req'[r].pc = "resume")
               => /\ req[r].pc = "findUnique"
                  /\ lastCall'.op = "none"
                  /\ redirectCache' = redirectCache
       /\ (lastCall'.op = "get" /\ lastCall'.ret # UNDEFINED)
          => /\ req' = req
             /\ sent'.kind = "redirect"
             /\ sent'.id = lastCall'.key
             /\ sent'.hit
             /\ sent'.calls = 0
       /\ (sent'.kind = "redirect" /\ ~sent'.hit)
          => /\ sent'.calls = 1
             /\ \E r \in Reqs : req[r].pc = "resume" /\ req'[r] = IdleReq
             /\ sent'.status # 500
                => /\ lastCall'.op = "set"
                   /\ lastCall'.key = sent'.id
                   /\ lastCall'.value = sent'.location
                   /\ (sent'.status = 404) = (sent'.location = NULL)
                   /\ MapHas(redirectCache', sent'.id)
                   /\ MapGet(redirectCache', sent'.id).value = sent'.location]_vars

\* a redirect answered from the store and cached, while another request is
\* waiting for the store
C11_Witness ==
    /\ sent.kind = "redirect"
    /\ ~sent.hit
    /\ sent.status = 302
    /\ lastCall.op = "set"
    /\ MapGet(redirectCache, sent.id).value = sent.location
    /\ \E r \in Reqs : req[r].pc = "findUnique"

\* C12: a mapping, once in the store, is never changed or removed, and no
\* second row is created for its originalUrl; an address whose findFirst
\* found a mapping is resolved to that mapping's shortId without a write;
\* so every successful shorten request rewrites each address with the one
\* shortId the store holds for it.
C12_IdempotentPerAddress ==
    [][/\ store \subseteq store'
       /\ \A row \in store' \ store : ~HasOriginalUrl(store, row.originalUrl)
       /\ \A s \in Ops :
            LET o == op[s]
            IN  (o.pc = "afterFind" /\ ~o.threw /\ o.existing # NULL
                   /\ op'[s].pc # o.pc)
                => /\ store' = store
                   /\ \E row \in store : /\ row.originalUrl = o.uniqueUrls[o.i]
                                         /\ row.shortId = o.existing
                   /\ IF o.i < Len(o.uniqueUrls)
                      THEN op'[s].cache[o.i] = o.existing
                      ELSE sent'.cache[o.i] = o.existing
       /\ (sent'.kind = "shorten" /\ sent'.status = 200)
          => \A k \in 1..Len(sent'.uniqueUrls) :
                \E row \in store' : /\ row.originalUrl = sent'.uniqueUrls[k]
                                    /\ row.shortId = sent'.cache[k]]_vars

\* a request that reused the mapping of one address and created the
\* mapping of another
C12_Witness ==
    /\ sent.kind = "shorten"
    /\ sent.status = 200
    /\ Len(sent.uniqueUrls) = 2
    /\ \E j, k \in 1..2 :
         /\ sent.finds[j] = 1 /\ sent.rows[j] = 0
         /\ sent.finds[k] = 1 /\ sent.rows[k] = 1

\* C13: a create rejected for a shortId collision is followed by another
\* create while fewer than MAX_ATTEMPTS were made, and adds no row; the
\* create that succeeds, after any number of collisions, adds exactly one
\* row, for the last candidate, and that candidate is the shortId returned;
\* when the MAX_ATTEMPTS-th create collides too the request fails (500)
\* and no row was created for the address.
C13_CollisionRetry ==
    [][\A s \in Ops :
        LET o == op[s]
            url == o.uniqueUrls[o.i]
        IN  /\ (o.pc = "create" /\ op'[s].pc = "afterCreate")
               => IF op'[s].result = "ok"
                  THEN /\ Cardinality(store') = Cardinality(store) + 1
                       /\ \E row \in store' \ store :
                            row.shortId = o.shortId /\ row.originalUrl = url
                       /\ op'[s].rows[o.i] = 1
                  ELSE store' = store /\ op'[s].rows[o.i] = 0
            /\ (o.pc = "afterCreate" /\ op'[s].pc # o.pc)
               => /\ store' = store
                  /\ (o.result = "P2002_shortId" /\ o.attempt + 1 < MAX_ATTEMPTS)
                     => /\ op'[s].pc = "create"
                        /\ op'[s].attempt = o.attempt + 1
                        /\ op'[s].i = o.i
                        /\ sent' = NoSent
                  /\ (o.result = "P2002_shortId" /\ o.attempt + 1 >= MAX_ATTEMPTS)
                     => /\ o.attempt + 1 = MAX_ATTEMPTS
                        /\ op'[s] = IdleOp
                        /\ sent'.kind = "shorten"
                        /\ sent'.status = 500
                        /\ sent'.cause = "exhausted"
                        /\ sent'.rows[o.i] = 0
                  /\ o.result = "ok"
                     => /\ o.rows[o.i] = 1
                        /\ IF o.i < Len(o.uniqueUrls)
                           THEN op'[s].cache[o.i] = o.shortId
                           ELSE sent'.cache[o.i] = o.shortId /\ sent'.status = 200]_vars

\* one request has just failed after MAX_ATTEMPTS collisions, while the
\* create of another succeeded after at least one collision
C13_Witness ==
    /\ sent.kind = "shorten"
    /\ sent.status = 500
    /\ sent.cause = "exhausted"
    /\ sent.result = "P2002_shortId"
    /\ sent.attempt = MAX_ATTEMPTS - 1
    /\ \E s \in Ops : /\ op[s].pc = "afterCreate"
                      /\ op[s].result = "ok"
                      /\ op[s].attempt >= 1

\* C14: when create fails with an error that is no unique violation, the
\* request makes no further create: its next step answers 500 without a
\* document, whatever attempts were left, and the store is as it was.
C14_StoreFailureNotRetried ==
    [][\A s \in Ops :
        (op[s].pc = "afterCreate" /\ op[s].result = "error" /\ op'[s].pc # op[s].pc)
        => /\ op'[s] = IdleOp
           /\ sent'.kind = "shorten"
           /\ sent'.status = 500
           /\ sent'.body = "json"
           /\ sent'.attempt = op[s].attempt
           /\ sent'.rows[op[s].i] = 0
           /\ store' = store]_vars

\* the failure came at the second create of the first of two addresses
C14_Witness ==
    /\ sent.kind = "shorten"
    /\ sent.status = 500
    /\ sent.result = "error"
    /\ sent.attempt = 1
    /\ sent.i = 1
    /\ Len(sent.uniqueUrls) = 2

\* C15: in every reachable state, under any interleaving of concurrent
\* shorten requests, no two rows of the store share a shortId and no two
\* share an originalUrl.
C15_StoreUnique ==
    \A a, b \in store :
        (a.shortId = b.shortId \/ a.originalUrl = b.originalUrl) => a = b

\* two mappings, and a request just refused because its create met the
\* other request's row
C15_Witness ==
    /\ Cardinality(store) >= 2
    /\ sent.kind = "shorten"
    /\ sent.raced

\* what the claims call targeted and qualifying
TargetPairs ==
    {<<"a", "href">>, <<"area", "href">>, <<"link", "href">>,
     <<"img", "src">>, <<"script", "src">>}

Targeted(el) == <<el.tag, el.attr>> \in TargetPairs

Qualifies(h) ==
    /\ h # UNDEFINED
    /\ LET t == toLowerCase(trim(Text(h)))
       IN  startsWith(t, "http://") \/ startsWith(t, "https://")

Occurrences(doc, h) ==
    {n \in 1..Len(doc) : Targeted(doc[n]) /\ doc[n].value = h}

RECURSIVE SumOf(_)
SumOf(q) == IF q = <<>> THEN 0 ELSE Head(q) + SumOf(Tail(q))

\* C16: an address that occurs N times in a document is one entry of
\* uniqueUrls, gets at most one findFirst and at most one created row,
\* and, when the request succeeds, exactly one findFirst and the same short
\* URL written to all N occurrences.
C16_DedupWithinDocument ==
    /\ \A s \in Ops :
         /\ \A j, k \in 1..Len(op[s].uniqueUrls) :
              op[s].uniqueUrls[j] = op[s].uniqueUrls[k] => j = k
         /\ \A k \in 1..Len(op[s].uniqueUrls) :
              op[s].finds[k] <= 1 /\ op[s].rows[k] <= 1
    /\ sent.kind = "shorten"
       => /\ \A j, k \in 1..Len(sent.uniqueUrls) :
               sent.uniqueUrls[j] = sent.uniqueUrls[k] => j = k
          /\ \A n \in 1..Len(sent.doc) :
               (Targeted(sent.doc[n]) /\ Qualifies(sent.doc[n].value))
               => \E k \in 1..Len(sent.uniqueUrls) :
                     sent.uniqueUrls[k] = sent.doc[n].value
          /\ \A k \in 1..Len(sent.uniqueUrls) :
               /\ sent.finds[k] <= 1
               /\ sent.rows[k] <= 1
               /\ sent.status = 200
                  => /\ sent.finds[k] = 1
                     /\ \A n \in Occurrences(sent.doc, sent.uniqueUrls[k]) :
                          sent.output[n].value = ShortUrl(sent.cache[k])

\* an address on two elements and another address on a third: two
\* findFirst calls, one row created for the address that occurs twice
C16_Witness ==
    /\ sent.kind = "shorten"
    /\ sent.status = 200
    /\ Len(sent.uniqueUrls) = 2
    /\ \E k \in 1..2 :
         /\ Cardinality(Occurrences(sent.doc, sent.uniqueUrls[k])) = 2
         /\ sent.rows[k] = 1
    /\ SumOf(sent.finds) = 2

DistinctlyRewritten ==
    \A m, n \in 1..Len(sent.doc) :
        (/\ Targeted(sent.doc[m]) /\ Qualifies(sent.doc[m].value)
         /\ Targeted(sent.doc[n]) /\ Qualifies(sent.doc[n].value)
         /\ sent.doc[m].value # sent.doc[n].value)
        => /\ sent.output[m].value # sent.doc[m].value
           /\ sent.output[n].value # sent.doc[n].value
           /\ sent.output[m].value # sent.output[n].value

\* C17 as stated: a successful shorten request rewrites distinct addresses
\* to distinct short URLs, and the rows it added are as many as the
\* distinct addresses of its document that had no mapping when it started.
C17_Original ==
    (sent.kind = "shorten" /\ sent.status = 200)
    => /\ DistinctlyRewritten
       /\ SumOf(sent.rows) = Cardinality(sent.fresh)

\* C17, amended: distinct addresses get distinct short URLs; the request
\* adds rows only for addresses that had no mapping when it started, one
\* each at most, and one for every such address when no other shorten
\* request was in flight at any time during it (another request may create
\* the mapping first, and this request then reuses it).
C17_DistinctAddresses ==
    (sent.kind = "shorten" /\ sent.status = 200)
    => /\ DistinctlyRewritten
       /\ \A k \in 1..Len(sent.uniqueUrls) :
            /\ sent.rows[k] <= 1
            /\ sent.rows[k] = 1 => sent.uniqueUrls[k] \in sent.fresh
       /\ SumOf(sent.rows) <= Cardinality(sent.fresh)
       /\ sent.alone => SumOf(sent.rows) = Cardinality(sent.fresh)

\* two addresses without mapping, two rows added, two short URLs
C17_Witness ==
    /\ sent.kind = "shorten"
    /\ sent.status = 200
    /\ sent.alone
    /\ Cardinality(sent.fresh) = 2
    /\ SumOf(sent.rows) = 2
    /\ sent.output[1].value # sent.output[2].value

\* the filter and the qualification rule agree on every value
FilterIsExact ==
    \A h \in Hrefs \cup {UNDEFINED} : isShortenable(h) = Qualifies(h)

\* C18: isShortenable accepts exactly the values that, trimmed and in lower
\* case, start with http:// or https://; only such values of targeted
\* attributes enter uniqueUrls, reach findFirst or create, or are stored;
\* and a targeted attribute whose value is absent or does not qualify is
\* the same in the response.
C18_SchemeFiltering ==
    /\ FilterIsExact
    /\ \A s \in Ops : \A k \in 1..Len(op[s].uniqueUrls) :
         /\ Qualifies(op[s].uniqueUrls[k])
         /\ \E n \in 1..Len(op[s].doc) :
              Targeted(op[s].doc[n]) /\ op[s].doc[n].value = op[s].uniqueUrls[k]
    /\ \A row \in store : Qualifies(row.originalUrl)
    /\ (sent.kind = "shorten" /\ sent.status = 200)
       => /\ Len(sent.output) = Len(sent.doc)
          /\ \A n \in 1..Len(sent.doc) :
               (~Targeted(sent.doc[n]) \/ ~Qualifies(sent.doc[n].value))
               => sent.output[n] = sent.doc[n]
          /\ \A n \in 1..Len(sent.doc) :
               (Targeted(sent.doc[n]) /\ Qualifies(sent.doc[n].value))
               => \E k \in 1..Len(sent.uniqueUrls) :
                     sent.uniqueUrls[k] = sent.doc[n].value

\* a javascript: link in capitals and an ftp link left alone beside an
\* address with blanks and capitals that was rewritten
C18_Witness ==
    /\ sent.kind = "shorten"
    /\ sent.status = 200
    /\ Len(sent.doc) = 3
    /\ \E l, m, n \in 1..3 :
         /\ Text(sent.doc[l].value) = <<"JavaScript:", "x">>
         /\ sent.output[l] = sent.doc[l]
         /\ Text(sent.doc[m].value) = <<"ftp://", "x">>
         /\ sent.output[m] = sent.doc[m]
         /\ Targeted(sent.doc[n])
         /\ startsWith(Text(sent.doc[n].value), " ")
         /\ sent.output[n].value # sent.doc[n].value

\* a step of a request after which the handler is in its catch block
Failing(o) ==
    \/ o.pc = "afterFind" /\ o.threw
    \/ /\ o.pc = "afterCreate"
       /\ \/ o.result \in {"error", "P2002_originalUrl"}
          \/ /\ o.result \in {"P2002_shortId", "P2002_noTarget"}
             /\ o.attempt + 1 >= MAX_ATTEMPTS

\* C19: when the resolution of an address fails (findFirst fails, create
\* fails, or the attempts are used up) the request's next step answers 500
\* with a json error and no document, and the request ends there: the
\* addresses after the failed one were never looked up and got no row.
C19_FailureAborts ==
    [][/\ \A s \in Ops :
            (Failing(op[s]) /\ op'[s].pc # op[s].pc)
            => /\ op'[s] = IdleOp
               /\ sent'.kind = "shorten"
               /\ sent'.status = 500
               /\ sent'.i = op[s].i
               /\ store' = store
       /\ (sent'.kind = "shorten" /\ sent'.status # 200)
          => /\ sent'.status = 500
             /\ sent'.body = "json"
             /\ sent'.output = <<>>
             /\ \E s \in Ops : Failing(op[s]) /\ op'[s] = IdleOp
             /\ \A k \in 1..Len(sent'.uniqueUrls) :
                  k > sent'.i => /\ sent'.finds[k] = 0
                                 /\ sent'.rows[k] = 0
                                 /\ sent'.cache[k] = PLACEHOLDER
       /\ (sent'.kind = "shorten" /\ sent'.status = 200)
          => /\ sent'.body = "html"
             /\ \A k \in 1..Len(sent'.uniqueUrls) :
                  sent'.cache[k] # PLACEHOLDER]_vars

\* the first of two addresses failed: 500, the second never looked up
C19_Witness ==
    /\ sent.kind = "shorten"
    /\ sent.status = 500
    /\ sent.output = <<>>
    /\ Len(sent.uniqueUrls) = 2
    /\ sent.i = 1
    /\ sent.finds = <<1, 0>>

\* C20: in the document of a 200 response every element keeps its tag and
\* attribute; a targeted attribute with a qualifying value holds
\* BASE_URL/r/shortId for the shortId the store maps that value to; every
\* other element is as it came.
C20_RewrittenDocument ==
    (sent.kind = "shorten" /\ sent.status = 200)
    => /\ Len(sent.output) = Len(sent.doc)
       /\ \A n \in 1..Len(sent.doc) :
            LET el == sent.doc[n]
                out == sent.output[n]
            IN  IF Targeted(el) /\ Qualifies(el.value)
                THEN /\ out.tag = el.tag
                     /\ out.attr = el.attr
                     /\ \E row \in store :
                          /\ row.originalUrl = el.value
                          /\ out.value = ShortUrl(row.shortId)
                          /\ Text(out.value) =
                               <<BASE_URL, "/r/", ToString(row.shortId)>>
                ELSE out = el

\* a script source rewritten, beside the same address on an attribute that
\* is no target and a mailto link, both as they came
C20_Witness ==
    /\ sent.kind = "shorten"
    /\ sent.status = 200
    /\ Len(sent.doc) = 3
    /\ \E l, m, n \in 1..3 :
         /\ sent.doc[l].tag = "script"
         /\ sent.output[l].value # sent.doc[l].value
         /\ ~Targeted(sent.doc[m])
         /\ sent.doc[m].value = sent.doc[l].value
         /\ sent.output[m] = sent.doc[m]
         /\ Text(sent.doc[n].value) = <<"mailto:", "x">>
         /\ sent.output[n] = sent.doc[n]

\* a step of a shorten request: a request moved, or a response was sent
ShortenStep ==
    \/ \E s \in Ops : op'[s].pc # op[s].pc
    \/ sent'.kind = "shorten"

\* C21: a shorten operation never reads or writes the redirect cache: no
\* step of a shorten request, on the way to a 200 or to a 500, calls
\* cacheGet or cacheSet, and each leaves the entries, their order and their
\* expiries as they were.
C21_ShortenLeavesCache ==
    [][ShortenStep =>
          /\ lastCall'.op = "none"
          /\ redirectCache' = redirectCache
          /\ touched' = touched]_vars

\* a shorten request created the mapping of an identifier and answered
\* while the cache held a live tombstone for that identifier
C21_Witness ==
    /\ sent.kind = "shorten"
    /\ sent.status = 200
    /\ Len(sent.uniqueUrls) = 1
    /\ sent.rows[1] = 1
    /\ LiveTombstone(redirectCache, sent.cache[1], now)

\* the step answers a request whose findUnique failed
StoreFailed ==
    \E r \in Reqs : /\ req[r].pc = "resume"
                    /\ req[r].threw
                    /\ req'[r].pc = "idle"

\* C22: a redirect request for an identifier that the store does not hold
\* is answered 404 unless its store call failed; a request answered from a
\* cached tombstone is answered 404; a redirect request is answered 500
\* exactly when its store call failed.
C22_AbsentIsNotFound ==
    [][sent'.kind = "redirect" =>
          /\ sent'.status = 500 <=> StoreFailed
          /\ (~HasShortId(store, sent'.id) /\ ~StoreFailed)
                => sent'.status = 404
          /\ (lastCall'.op = "get" /\ lastCall'.ret = NULL)
                => sent'.status = 404]_vars

\* a request was answered 404 from a tombstone while the store call of
\* another request had failed and was not answered yet
C22_Witness ==
    /\ sent.kind = "redirect"
    /\ sent.status = 404
    /\ sent.hit
    /\ \E r \in Reqs : req[r].pc = "resume" /\ req[r].threw

\* the input carries no document: no file in the form, no HTML in the
\* body, or a content type the handler does not take
MissingInput(rq) ==
    \/ rq.is = "multipart/form-data" /\ ~rq.file
    \/ rq.is = "text/html" /\ rq.body # "string"
    \/ rq.is = "application/json" /\ rq.html # "string"
    \/ rq.is = "other"

\* C23: a shorten request without document input (no uploaded file, no
\* HTML body, or an unsupported content type) is answered with a client
\* error, 400 or 415, and the store is left unchanged.
C23_Original ==
    [][(sent'.kind = "shorten" /\ MissingInput(sent'.request)) =>
          /\ sent'.status \in {400, 415}
          /\ store' = store]_vars

\* C24: for one key, under any interleaving of concurrent redirect
\* requests, a cacheGet hit returns the value written by the most recent
\* cacheSet for that key.  Stated step by step: a cacheSet(k, v) leaves k
\* with value v; no other step changes the value of an entry that stays
\* in the cache or brings k into the cache; a hit returns the value the
\* entry holds.
C24_LastWriteWins ==
    [][\A k \in ShortIds :
          /\ (lastCall'.op = "set" /\ lastCall'.key = k)
                => /\ MapHas(redirectCache', k)
                   /\ MapGet(redirectCache', k).value = lastCall'.value
          /\ (~(lastCall'.op = "set" /\ lastCall'.key = k)
                /\ MapHas(redirectCache', k))
                => /\ MapHas(redirectCache, k)
                   /\ MapGet(redirectCache', k).value
                        = MapGet(redirectCache, k).value
          /\ (lastCall'.op = "get" /\ lastCall'.key = k
                /\ lastCall'.ret # UNDEFINED)
                => /\ MapHas(redirectCache, k)
                   /\ lastCall'.ret = MapGet(redirectCache, k).value]_vars

\* a hit returned the tombstone of a key whose mapping exists while another
\* request for the key, which read the mapping, has not written it yet
C24_Witness ==
    /\ lastCall.op = "get"
    /\ lastCall.ret = NULL
    /\ HasShortId(store, lastCall.key)
    /\ \E r \in Reqs : /\ req[r].pc = "resume"
                        /\ req[r].id = lastCall.key
                        /\ req[r].record # NULL

\* the requests that the step moved, and the store responses in it
MovedReqs == {r \in Reqs : req'[r].pc # req[r].pc}
MovedOps == {s \in Ops : op'[s].pc # op[s].pc}
StoreResponded ==
    \/ \E r \in Reqs : req[r].pc = "findUnique" /\ req'[r].pc = "resume"
    \/ \E s \in Ops : op[s].pc = "findFirst" /\ op'[s].pc = "afterFind"
    \/ \E s \in Ops : op[s].pc = "create" /\ op'[s].pc = "afterCreate"
    \/ store' # store

\* C25: each cacheGet and cacheSet is one step: the step of a cache call
\* holds that one call, applied whole to the cache as it stood, moves no
\* other request and holds no store response; a step without cache call
\* leaves the cache alone; a request that is not idle stands at a store
\* call, issued or answered.
C25_CacheCallsAtomic ==
    [][/\ Cardinality(MovedReqs) + Cardinality(MovedOps) <= 1
       /\ lastCall'.op = "get"
            => /\ redirectCache'
                    = cacheGetCache(redirectCache, lastCall'.key, now)
               /\ lastCall'.ret
                    = cacheGetReturn(redirectCache, lastCall'.key, now)
               /\ ~StoreResponded /\ MovedOps = {}
       /\ lastCall'.op = "set"
            => /\ redirectCache'
                    = cacheSetCache(redirectCache, lastCall'.key,
                                    lastCall'.value, now, CACHE_MAX_ENTRIES)
               /\ ~StoreResponded /\ MovedOps = {}
       /\ lastCall'.op = "none" => redirectCache' = redirectCache
       /\ \A r \in Reqs : req'[r].pc \in {"idle", "findUnique", "resume"}
       /\ \A s \in Ops : op'[s].pc \in {"idle", "findFirst", "afterFind",
                                         "create", "afterCreate"}]_vars

\* a cacheSet was made while another redirect request and a shorten
\* request waited for the store
C25_Witness ==
    /\ lastCall.op = "set"
    /\ \E r \in Reqs : req[r].pc = "findUnique"
    /\ \E s \in Ops : op[s].pc = "create"

\* C26: within one shorten operation the addresses are resolved one after
\* another: while the request is at address i, every address before i was
\* looked up once and has its shortId, the address i is the only one with
\* a store call issued or answered, and no address after i was looked up,
\* got a row or got a shortId.
C26_OneAddressAtATime ==
    \A s \in Ops :
        op[s].pc # "idle" =>
            LET o == op[s]
            IN  /\ o.i \in 1..Len(o.uniqueUrls)
                /\ \A k \in 1..Len(o.uniqueUrls) :
                     /\ k < o.i => /\ o.finds[k] = 1
                                   /\ o.cache[k] # PLACEHOLDER
                     /\ k = o.i => /\ o.cache[k] = PLACEHOLDER
                                   /\ o.finds[k] =
                                        (IF o.pc = "findFirst" THEN 0 ELSE 1)
                                   /\ o.pc \in {"findFirst", "afterFind"}
                                        => o.rows[k] = 0
                     /\ k > o.i => /\ o.finds[k] = 0
                                   /\ o.rows[k] = 0
                                   /\ o.cache[k] = PLACEHOLDER

\* the lookup of the second address is issued after the row of the first
\* was created
C26_Witness ==
    \E s \in Ops : /\ op[s].pc = "findFirst"
                   /\ op[s].i = 2
                   /\ op[s].rows[1] = 1
                   /\ op[s].finds[2] = 0

\* the mappings of a table
Pairs(st) == {<<row.shortId, row.originalUrl>> : row \in st}

\* C27: no step of a redirect or shorten request changes or removes a
\* mapping: the mappings of the store only grow, by one row at a time, and
\* a row is created only by the create call of a request whose findFirst
\* for that address returned null.
C27_MappingsImmutable ==
    [][/\ Pairs(store) \subseteq Pairs(store')
       /\ Cardinality(Pairs(store') \ Pairs(store)) <= 1
       /\ \A p \in Pairs(store') \ Pairs(store) :
            \E s \in Ops :
                /\ op[s].pc = "create"
                /\ op[s].finds[op[s].i] = 1
                /\ ~op[s].threw
                /\ op[s].existing = NULL
                /\ p = <<op[s].shortId, op[s].uniqueUrls[op[s].i]>>
                /\ op'[s].result = "ok"]_vars

\* a second mapping was created while a redirect request was in flight,
\* and the first is still there
C27_Witness ==
    /\ \E s \in Ops : op[s].pc = "afterCreate" /\ op[s].result = "ok"
    /\ Cardinality(Pairs(store)) = 2
    /\ \E r \in Reqs : req[r].pc = "resume" /\ req[r].record # NULL

LastAttemptEnds ==
    \A maxAttempts \in {DEFAULT_MAX_ATTEMPTS, MAX_ATTEMPTS} :
        \A attempt \in 0..MAX_ATTEMPTS :
            \A result \in {"ok", "P2002_shortId", "P2002_originalUrl",
                            "P2002_noTarget", "error"} :
                /\ attempt + 1 >= maxAttempts
                     => createUrlWithUniqueShortId(result, attempt, maxAttempts)
                          # "retry"
                /\ createUrlWithUniqueShortId(result, attempt, maxAttempts)
                     \in {"return", "retry", "exhausted", "rethrow"}

\* C29: one allocation makes at most maxAttempts create calls, 6 from the
\* shorten handler (5 by default), and then ends: an allocation that has
\* issued its first create eventually returns a shortId or fails, also
\* when every candidate collides.
C29_AllocationTerminates ==
    /\ [](LastAttemptEnds /\ \A s \in Ops : op[s].attempt + 1 <= MAX_ATTEMPTS)
    /\ \A s \in Ops :
         (op[s].pc = "create" /\ op[s].attempt = 0)
            ~> (op[s].pc \in {"idle", "findFirst"})

\* the sixth create of an allocation collided: the allocation is about to
\* fail without a seventh
C29_Witness ==
    \E s \in Ops : /\ op[s].pc = "afterCreate"
                   /\ op[s].attempt + 1 = MAX_ATTEMPTS
                   /\ op[s].result = "P2002_noTarget"

\* C30: under any interleaving of redirect and shorten requests, no
\* cacheSet writes a tombstone for an identifier for which the store holds
\* a mapping at that moment.
C30_NoStaleTombstone ==
    (lastCall.op = "set" /\ lastCall.value = NULL)
        => ~HasShortId(store, lastCall.key)

\* C31: in every reachable state a cache entry that is not a tombstone
\* holds, for its identifier, the address of a mapping of the store; so
\* does the record a request read and has not cached yet.
C31_PositiveEntriesRight ==
    /\ \A i \in 1..Len(redirectCache) :
         redirectCache[i].value # NULL
         => <<redirectCache[i].key, redirectCache[i].value>> \in Pairs(store)
    /\ \A r \in Reqs :
         (req[r].pc = "resume" /\ req[r].record # NULL)
         => <<req[r].id, req[r].record>> \in Pairs(store)

\* the cache holds the addresses of two mappings, one of them expired
C31_Witness ==
    /\ Len(redirectCache) = 2
    /\ \A i \in 1..2 : redirectCache[i].value # NULL
    /\ redirectCache[1].expiresAt <= now
    /\ Cardinality(Pairs(store)) = 2

\* C32: a cacheSet removes at most one entry, and only when its key was
\* not in the cache and the cache held CACHE_MAX_ENTRIES entries; on a key
\* that is present it removes nothing and moves nothing; the entry just
\* set is in the cache afterwards; the entries of the other keys that stay
\* are as they were.
C32_SetEvictsAtMostOne ==
    [][lastCall'.op = "set" =>
          LET k == lastCall'.key
          IN  /\ Cardinality(lastCall'.evicted) <= 1
              /\ lastCall'.evicted # {}
                   => /\ ~MapHas(redirectCache, k)
                      /\ Len(redirectCache) = CACHE_MAX_ENTRIES
              /\ MapHas(redirectCache, k)
                   => /\ lastCall'.evicted = {}
                      /\ [i \in 1..Len(redirectCache') |-> redirectCache'[i].key]
                           = [i \in 1..Len(redirectCache) |-> redirectCache[i].key]
              /\ MapHas(redirectCache', k)
              /\ k \notin lastCall'.evicted
              /\ Others(redirectCache', k)
                   = SelectSeq(Others(redirectCache, k),
                               LAMBDA e : e.key \notin lastCall'.evicted)]_vars

\* a cacheSet on the first key of a full cache: nothing was evicted and
\* the key is still the first
C32_Witness ==
    /\ lastCall.op = "set"
    /\ lastCall.evicted = {}
    /\ CACHE_MAX_ENTRIES >= 2
    /\ Len(redirectCache) = CACHE_MAX_ENTRIES
    /\ redirectCache[1].key = lastCall.key

\* C33: a failed shorten request is not rolled back.  The step that sends
\* the 500 leaves the store as it is, with the mappings of the addresses
\* the request resolved before the failing one; no later step removes
\* them; a findFirst for an address that has a mapping returns its
\* shortId, and the request that gets it takes it and creates no row.
C33_NoRollback ==
    [][/\ (sent'.kind = "shorten" /\ sent'.status = 500)
            => /\ store' = store
               /\ \A k \in 1..Len(sent'.uniqueUrls) :
                    k < sent'.i
                    => <<sent'.cache[k], sent'.uniqueUrls[k]>>
                         \in Pairs(store')
       /\ Pairs(store) \subseteq Pairs(store')
       /\ \A s \in Ops :
            LET u == op[s].uniqueUrls[op[s].i]
            IN  /\ (/\ op[s].pc = "findFirst"
                     /\ op'[s].pc = "afterFind"
                     /\ ~op'[s].threw
                     /\ HasOriginalUrl(store, u))
                    => <<op'[s].existing, u>> \in Pairs(store)
                /\ (/\ op[s].pc = "afterFind"
                     /\ op'[s].pc # "afterFind"
                     /\ ~op[s].threw
                     /\ op[s].existing # NULL)
                    => /\ store' = store
                       /\ IF op'[s].pc = "idle"
                          THEN /\ sent'.status = 200
                               /\ sent'.cache[op[s].i] = op[s].existing
                               /\ sent'.rows[op[s].i] = 0
                          ELSE /\ op'[s].cache[op[s].i] = op[s].existing
                               /\ op'[s].rows[op[s].i] = 0]_vars

\* a request created the row of its first address and failed at the
\* second: the 500 is sent and the row is in the store
C33_Witness ==
    /\ sent.kind = "shorten"
    /\ sent.status = 500
    /\ sent.i = 2
    /\ sent.rows = <<1, 0>>
    /\ <<sent.cache[1], sent.uniqueUrls[1]>> \in Pairs(store)

\* C34: a redirect request whose findUnique failed is answered 500 and
\* writes nothing to the cache: its steps after the cacheGet make no cache
\* call and leave the cache as it is, and its cacheGet, a miss, changed the
\* cache at most by removing the expired entry of its identifier.
C34_FailureWritesNothing ==
    [][\A r \in Reqs :
          /\ (req[r].pc = "idle" /\ req'[r].pc = "findUnique")
               => /\ lastCall'.op = "get"
                  /\ lastCall'.key = req'[r].id
                  /\ redirectCache' = Others(redirectCache, req'[r].id)
                  /\ MapHas(redirectCache, req'[r].id)
                       => MapGet(redirectCache, req'[r].id).expiresAt <= now
          /\ (req[r].pc = "findUnique" /\ req'[r].pc = "resume")
               => /\ lastCall'.op = "none"
                  /\ redirectCache' = redirectCache
          /\ (req[r].pc = "resume" /\ req[r].threw /\ req'[r].pc = "idle")
               => /\ sent'.kind = "redirect"
                  /\ sent'.id = req[r].id
                  /\ sent'.status = 500
                  /\ lastCall'.op = "none"
                  /\ redirectCache' = redirectCache
                  /\ touched' = touched]_vars

\* a 500 was sent for an identifier that has no entry while the cache
\* holds the entry of another
C34_Witness ==
    /\ sent.kind = "redirect"
    /\ sent.status = 500
    /\ ~MapHas(redirectCache, sent.id)
    /\ Len(redirectCache) = 1

\* a violation without target is treated as one on shortId, whatever the
\* attempt and the budget; one on originalUrl is rethrown
UntargetedLikeShortId ==
    \A maxAttempts \in {DEFAULT_MAX_ATTEMPTS, MAX_ATTEMPTS} :
        \A attempt \in 0..(MAX_ATTEMPTS - 1) :
            /\ createUrlWithUniqueShortId("P2002_noTarget", attempt, maxAttempts)
                 = createUrlWithUniqueShortId("P2002_shortId", attempt, maxAttempts)
            /\ createUrlWithUniqueShortId("P2002_noTarget", attempt, maxAttempts)
                 = (IF attempt + 1 < maxAttempts THEN "retry" ELSE "exhausted")
            /\ createUrlWithUniqueShortId("P2002_originalUrl", attempt, maxAttempts)
                 = "rethrow"

\* C35: a uniqueness violation without reported field is handled like a
\* shortId collision: the allocation issues the next create with a new
\* candidate while attempts are left and fails when the sixth is used up;
\* a violation that names originalUrl ends the allocation at once, with
\* that error, whatever attempts are left.
C35_UntargetedViolationRetried ==
    [][/\ UntargetedLikeShortId
       /\ \A s \in Ops :
            (op[s].pc = "afterCreate" /\ op'[s].pc # "afterCreate")
            => /\ op[s].result \in {"P2002_noTarget", "P2002_shortId"}
                    => IF op[s].attempt + 1 < MAX_ATTEMPTS
                       THEN /\ op'[s].pc = "create"
                            /\ op'[s].attempt = op[s].attempt + 1
                            /\ op'[s].i = op[s].i
                            /\ sent' = NoSent
                       ELSE /\ op'[s] = IdleOp
                            /\ sent'.status = 500
                            /\ sent'.cause = "exhausted"
               /\ op[s].result = "P2002_originalUrl"
                    => /\ op'[s] = IdleOp
                       /\ sent'.status = 500
                       /\ sent'.cause = "rethrow"
                       /\ sent'.attempt = op[s].attempt]_vars

\* an allocation failed after six violations, the last without target,
\* while another request's first create was rejected for originalUrl
C35_Witness ==
    /\ sent.kind = "shorten"
    /\ sent.status = 500
    /\ sent.cause = "exhausted"
    /\ sent.result = "P2002_noTarget"
    /\ sent.attempt + 1 = MAX_ATTEMPTS
    /\ \E s \in Ops : /\ op[s].pc = "afterCreate"
                       /\ op[s].result = "P2002_originalUrl"
                       /\ op[s].attempt = 0

\* the values the handler writes
ShortUrls == {ShortUrl(id) : id \in ShortIds}

\* C36: shortening is not idempotent on documents.  Every redirect URL
\* BASE_URL/r/shortId is itself shortenable; so in the 200 response to a
\* document that holds redirect URLs (the output of a shorten operation)
\* each of them is replaced by another redirect URL, that of a mapping
\* whose originalUrl is the redirect URL replaced, and this mapping was
\* created by the request when none existed for it before.
C36_NotIdempotent ==
    /\ \A h \in ShortUrls : isShortenable(h)
    /\ \A s \in Ops : \A n \in 1..Len(op[s].doc) :
         op[s].doc[n].value \in ShortUrls
         => \E k \in 1..Len(op[s].uniqueUrls) :
               op[s].uniqueUrls[k] = op[s].doc[n].value
    /\ (sent.kind = "shorten" /\ sent.status = 200)
       => \A n \in 1..Len(sent.doc) :
            sent.doc[n].value \in ShortUrls
            => /\ sent.output[n].value \in ShortUrls
               /\ sent.output[n].value # sent.doc[n].value
               /\ \E row \in store :
                    /\ row.originalUrl = sent.doc[n].value
                    /\ sent.output[n].value = ShortUrl(row.shortId)
               /\ \A k \in 1..Len(sent.uniqueUrls) :
                    (sent.uniqueUrls[k] = sent.doc[n].value
                       /\ sent.doc[n].value \in sent.fresh)
                    => sent.rows[k] = 1

\* the output of a shorten operation was shortened: its redirect URL got a
\* mapping of its own and was rewritten to that mapping's redirect URL
C36_Witness ==
    /\ sent.kind = "shorten"
    /\ sent.status = 200
    /\ Len(sent.doc) = 1
    /\ sent.doc[1].value \in ShortUrls
    /\ sent.rows = <<1>>
    /\ sent.output # sent.doc
    /\ \E row \in store : row.originalUrl \in ShortUrls
====
